---- MODULE Spec2Model ----
(***************************************************************************)
(* Model of gxsmread/preprocess.py: the gxsm format check, the FloatField  *)
(* conversion, the metadata clean-up and the top-level preprocess().       *)
(*                                                                         *)
(* An xarray.Dataset is modelled by what preprocess.py reads and writes:   *)
(*   variables : the ordered dict Dataset._variables, a sequence of        *)
(*               [name, dims, shape, data, units]; a variable whose dims   *)
(*               are <<its own name>> is a dimension coordinate, the       *)
(*               others are data variables;                                *)
(*   attrs     : Dataset.attrs, a function from attribute names;           *)
(*   encoding  : Dataset.encoding, a function from encoding keys.          *)
(* Array data is a function from index tuples (1-based) to numbers.        *)
(***************************************************************************)
EXTENDS Integers, Sequences, FiniteSets, TLC

(***************************************************************************)
(* Bounds of the model.                                                    *)
(***************************************************************************)
MaxDim == 2
MaxDz == 2
MaxFactor == 2
MaxCreatorLen == 5

(***************************************************************************)
(* Module-level constants of preprocess.py.                                *)
(***************************************************************************)
GXSM_DATA_VAR == "FloatField"
GXSM_DATA_DIFFERENTIAL == "dz"
GXSM_KEPT_DIMS == <<"dimx", "dimy">>
GXSM_KEPT_DATA_VARS == <<GXSM_DATA_VAR, GXSM_DATA_DIFFERENTIAL>>
\* A Python str is modelled as a sequence of one-character strings.
GXSM_FORMAT_CHECK == <<"Creator", <<"g", "x", "s", "m">>>>

(***************************************************************************)
(* Generic helpers.                                                        *)
(***************************************************************************)
SeqToSet(s) == {s[i] : i \in DOMAIN s}

RECURSIVE Uniq(_)
Uniq(s) ==
  IF s = <<>> THEN <<>>
  ELSE LET r == Uniq(SubSeq(s, 1, Len(s) - 1))
           x == s[Len(s)]
       IN IF x \in SeqToSet(r) THEN r ELSE Append(r, x)

RECURSIVE Flatten(_)
Flatten(ss) == IF ss = <<>> THEN <<>> ELSE Head(ss) \o Flatten(Tail(ss))

RECURSIVE Reverse(_)
Reverse(s) == IF s = <<>> THEN <<>> ELSE Append(Reverse(Tail(s)), Head(s))

RECURSIVE Idx(_)
Idx(shape) ==
  IF shape = <<>> THEN {<<>>}
  ELSE {<<i>> \o t : i \in 1..Head(shape), t \in Idx(Tail(shape))}

(***************************************************************************)
(* Python str: str.lower() and the substring test `sub in s`.              *)
(***************************************************************************)
LowerChar(c) ==
  CASE c = "G" -> "g"
    [] c = "X" -> "x"
    [] c = "S" -> "s"
    [] c = "M" -> "m"
    [] OTHER -> c

StrLower(s) == [i \in DOMAIN s |-> LowerChar(s[i])]

StrContains(sub, s) ==
  \E i \in 1..(Len(s) - Len(sub) + 1) : SubSeq(s, i, i + Len(sub) - 1) = sub

(***************************************************************************)
(* Attribute values: a str, a number, or data extracted from an array.     *)
(***************************************************************************)
StrAttr(chars) == [kind |-> "str", val |-> chars]
NumAttr(n) == [kind |-> "num", val |-> n]

\* utils.extract_numpy_data: turns a numpy array into the attribute value.
ExtractNumpyData(arr) == [kind |-> "np", val |-> arr]

AttrsSet(attrs, key, value) ==
  [k \in (DOMAIN attrs) \cup {key} |-> IF k = key THEN value ELSE attrs[k]]

(***************************************************************************)
(* xarray.Dataset, as far as preprocess.py uses it.                        *)
(***************************************************************************)
NoUnits == ""

Names(ds) == [i \in DOMAIN ds.variables |-> ds.variables[i].name]

HasVariable(ds, name) == name \in SeqToSet(Names(ds))

Variable(ds, name) ==
  ds.variables[CHOOSE i \in DOMAIN ds.variables : ds.variables[i].name = name]

IsCoord(v) == v.dims = <<v.name>>

\* Dataset.dims: the dimensions of all variables, in order of first use.
Dims(ds) == Uniq(Flatten([i \in DOMAIN ds.variables |-> ds.variables[i].dims]))

DimSize(ds, dim) ==
  LET i == CHOOSE i \in DOMAIN ds.variables : dim \in SeqToSet(ds.variables[i].dims)
      v == ds.variables[i]
      k == CHOOSE k \in DOMAIN v.dims : v.dims[k] = dim
  IN v.shape[k]

\* Dataset.data_vars: the variables that are not coordinates, in dict order.
DataVars(ds) ==
  LET dv == SelectSeq(ds.variables, LAMBDA v : ~IsCoord(v))
  IN [i \in DOMAIN dv |-> dv[i].name]

\* The default index xarray makes up for a dimension without a coordinate.
VirtualVariable(ds, dim) ==
  LET n == DimSize(ds, dim)
  IN [name |-> dim, dims |-> <<dim>>, shape |-> <<n>>,
      data |-> [t \in Idx(<<n>>) |-> t[1] - 1], units |-> NoUnits]

\* Dataset.__getitem__(key): the variable, else the default index of a
\* dimension, else KeyError.
GetItem(ds, key) ==
  IF HasVariable(ds, key)
  THEN [exc |-> "none", var |-> Variable(ds, key)]
  ELSE IF key \in SeqToSet(Dims(ds))
  THEN [exc |-> "none", var |-> VirtualVariable(ds, key)]
  ELSE [exc |-> "KeyError", var |-> <<>>]

\* Dataset.drop_vars(names), errors="raise": a new Dataset, attrs copied.
DropVars(ds, names) ==
  IF ~(names \subseteq SeqToSet(Names(ds)))
  THEN [exc |-> "ValueError", ds |-> ds]
  ELSE [exc |-> "none",
        ds |-> [ds EXCEPT !.variables =
                  SelectSeq(ds.variables, LAMBDA v : v.name \notin names)]]

\* Dataset.drop_dims(dims), errors="raise": every name must be a dimension;
\* every variable that uses one of them is dropped.
DropDims(ds, drop_dims) ==
  IF ~(drop_dims \subseteq SeqToSet(Dims(ds)))
  THEN [exc |-> "ValueError", ds |-> ds]
  ELSE DropVars(ds, {ds.variables[i].name : i \in
                       {j \in DOMAIN ds.variables :
                          SeqToSet(ds.variables[j].dims) \cap drop_dims # {}}})

\* numpy a * b for the shapes that occur: equal shapes, or one 0-d operand.
NpMul(a, b) ==
  IF b.shape = <<>>
  THEN [exc |-> "none", shape |-> a.shape,
        data |-> [t \in DOMAIN a.data |-> a.data[t] * b.data[<<>>]]]
  ELSE IF a.shape = <<>>
  THEN [exc |-> "none", shape |-> b.shape,
        data |-> [t \in DOMAIN b.data |-> a.data[<<>>] * b.data[t]]]
  ELSE IF a.shape = b.shape
  THEN [exc |-> "none", shape |-> a.shape,
        data |-> [t \in DOMAIN a.data |-> a.data[t] * b.data[t]]]
  ELSE [exc |-> "ValueError", shape |-> <<>>, data |-> <<>>]

\* numpy array * number.
NpScale(arr, factor) ==
  [shape |-> arr.shape, data |-> [t \in DOMAIN arr.data |-> arr.data[t] * factor]]

\* xarray.DataArray(data=, dims=, coords=): the data must have one axis per
\* dimension and each coordinate the length of its axis.
DataArrayNew(arr, dims, coords) ==
  IF Len(arr.shape) # Len(dims)
  THEN [exc |-> "ValueError", da |-> <<>>]
  ELSE IF \E k \in DOMAIN dims :
            dims[k] \in DOMAIN coords /\ coords[dims[k]].shape # <<arr.shape[k]>>
  THEN [exc |-> "ValueError", da |-> <<>>]
  ELSE [exc |-> "none",
        da |-> [dims |-> dims, shape |-> arr.shape, data |-> arr.data,
                units |-> NoUnits, coords |-> coords]]

\* ds[name] = da, in place: the variable replaces the one of that name or is
\* added last; a coordinate of da the dataset lacks is added too.
SetItem(ds, name, da) ==
  LET v == [name |-> name, dims |-> da.dims, shape |-> da.shape,
            data |-> da.data, units |-> da.units]
      replaced == [i \in DOMAIN ds.variables |->
                     IF ds.variables[i].name = name THEN v ELSE ds.variables[i]]
      with == IF HasVariable(ds, name) THEN replaced ELSE Append(ds.variables, v)
      new == SelectSeq([k \in DOMAIN da.dims |-> da.dims[k]],
                       LAMBDA d : d \in DOMAIN da.coords /\ d # name
                                  /\ ~HasVariable(ds, d))
  IN [ds EXCEPT !.variables = with \o [k \in DOMAIN new |-> da.coords[new[k]]]]

(***************************************************************************)
(* is_gxsm_file(ds).  attrs['Creator'] missing is the caught KeyError; a   *)
(* value that is not a str has no lower() and the AttributeError escapes.  *)
(***************************************************************************)
\* Variant: the test without lower(), so 'GXSM' is not recognised.
IsGxsmFileCaseSensitive(ds) ==
  IF GXSM_FORMAT_CHECK[1] \notin DOMAIN ds.attrs
  THEN [exc |-> "none", ret |-> FALSE]
  ELSE IF ds.attrs[GXSM_FORMAT_CHECK[1]].kind # "str"
  THEN [exc |-> "AttributeError", ret |-> FALSE]
  ELSE [exc |-> "none",
        ret |-> StrContains(GXSM_FORMAT_CHECK[2], ds.attrs[GXSM_FORMAT_CHECK[1]].val)]

IsGxsmFile(ds) ==
  IF GXSM_FORMAT_CHECK[1] \notin DOMAIN ds.attrs
  THEN [exc |-> "none", ret |-> FALSE]
  ELSE IF ds.attrs[GXSM_FORMAT_CHECK[1]].kind # "str"
  THEN [exc |-> "AttributeError", ret |-> FALSE]
  ELSE [exc |-> "none",
        ret |-> StrContains(GXSM_FORMAT_CHECK[2],
                            StrLower(ds.attrs[GXSM_FORMAT_CHECK[1]].val))]

(***************************************************************************)
(* convert_floatfield(ds, channel_config).  The result names the exception *)
(* raised ("none" when it returns), the caller's dataset object after the  *)
(* call (ds[name] = da writes into it) and the returned dataset.  The      *)
(* statements are chained last to first: each operator is one statement    *)
(* and hands the values it made to the next.                               *)
(***************************************************************************)
Raised(exc, ds) == [exc |-> exc, ds |-> ds, returned |-> FALSE, ret |-> ds]
Returned(ds, ret) == [exc |-> "none", ds |-> ds, returned |-> TRUE, ret |-> ret]

\* Variable.data: the numpy array of a variable.
NpData(var) == [shape |-> var.shape, data |-> var.data]

\* line 136: return ds
ReturnDropped(ds, dropped) ==
  IF dropped.exc # "none" THEN Raised(dropped.exc, ds) ELSE Returned(ds, dropped.ds)

\* line 135: ds = ds.drop_dims(GXSM_KEPT_DATA_VARS)
DropOriginals(ds) == ReturnDropped(ds, DropDims(ds, SeqToSet(GXSM_KEPT_DATA_VARS)))

\* lines 131-132: da.attrs['units'] = ...; ds[channel_config.name] = da
AssignField(ds, channel_config, made) ==
  IF made.exc # "none" THEN Raised(made.exc, ds)
  ELSE DropOriginals(SetItem(ds, channel_config.name,
                             [made.da EXCEPT !.units = channel_config.units]))

\* lines 123-130: da = xarray.DataArray(data=, dims=, coords=)
MakeDataArray(ds, channel_config, converted_data, dimx, dimy) ==
  IF dimx.exc # "none" \/ dimy.exc # "none" THEN Raised("AttributeError", ds)
  ELSE AssignField(ds, channel_config,
                   DataArrayNew(converted_data, <<"dimx", "dimy">>,
                                [d \in {"dimx", "dimy"} |->
                                   IF d = "dimx" THEN dimx.var ELSE dimy.var]))

\* Variant: the product is not multiplied by the conversion factor.
ScaleProductUnscaled(ds, channel_config, prod) ==
  IF prod.exc # "none" THEN Raised(prod.exc, ds)
  ELSE MakeDataArray(ds, channel_config, [shape |-> prod.shape, data |-> prod.data],
                     GetItem(ds, "dimx"), GetItem(ds, "dimy"))

\* line 120: ... * channel_config.conversion_factor
ScaleProduct(ds, channel_config, prod) ==
  IF prod.exc # "none" THEN Raised(prod.exc, ds)
  ELSE MakeDataArray(ds, channel_config,
                     NpScale(prod, channel_config.conversion_factor),
                     GetItem(ds, "dimx"), GetItem(ds, "dimy"))

\* line 119: ds[GXSM_DATA_VAR].data * ds[GXSM_DATA_DIFFERENTIAL].data
MultiplyFields(ds, channel_config, ff, dz) ==
  IF ff.exc # "none" THEN Raised(ff.exc, ds)
  ELSE IF dz.exc # "none" THEN Raised(dz.exc, ds)
  ELSE ScaleProduct(ds, channel_config, NpMul(NpData(ff.var), NpData(dz.var)))

ConvertFloatfield(ds, channel_config) ==
  MultiplyFields(ds, channel_config, GetItem(ds, GXSM_DATA_VAR),
                 GetItem(ds, GXSM_DATA_DIFFERENTIAL))

(***************************************************************************)
(* clean_up_metadata(ds, saved_vars_list).  A loop state holds             *)
(*   cur  : the dataset the local name ds is bound to,                     *)
(*   obj  : the caller's dataset object, once cur is another object,       *)
(*   same : whether cur is still the caller's object (drop_dims and        *)
(*          drop_vars return a new one),                                   *)
(*   exc  : the exception raised so far.                                   *)
(***************************************************************************)
CallerObject(st) == IF st.same THEN st.cur ELSE st.obj

\* ds.attrs[key] = extract_numpy_data(ds[key].data), lines 184 and 190
SetAttr(st, key, got) ==
  IF got.exc # "none" THEN [st EXCEPT !.exc = got.exc]
  ELSE [st EXCEPT !.cur.attrs = AttrsSet(@, key, ExtractNumpyData(NpData(got.var)))]

\* ds = ds.drop_dims(..) / ds = ds.drop_vars(..), lines 185 and 191
Rebind(st, dropped) ==
  IF st.exc # "none" THEN st
  ELSE IF dropped.exc # "none" THEN [st EXCEPT !.exc = dropped.exc]
  ELSE [cur |-> dropped.ds, obj |-> CallerObject(st), same |-> FALSE,
        exc |-> "none"]

DropDimOf(st, dim) == Rebind(st, DropDims(st.cur, {dim}))

\* Variant: ds.drop_vars(var) without binding its result to ds.
DropVarOfUnbound(st, var) == st

DropVarOf(st, var) == Rebind(st, DropVars(st.cur, {var}))

\* One pass of the first loop body, lines 183-185.
DemoteDim(st, dim) ==
  IF st.exc # "none" \/ dim \in SeqToSet(GXSM_KEPT_DIMS) THEN st
  ELSE DropDimOf(SetAttr(st, dim, GetItem(st.cur, dim)), dim)

\* One pass of the second loop body, lines 189-191.
DemoteVar(st, var, data_vars_whitelist) ==
  IF st.exc # "none" \/ var \in SeqToSet(data_vars_whitelist) THEN st
  ELSE DropVarOf(SetAttr(st, var, GetItem(st.cur, var)), var)

\* for dim in ds.dims: the dims of the dataset the loop started on.
RECURSIVE MoveDims(_, _)
MoveDims(st, dims) ==
  IF dims = <<>> THEN st ELSE MoveDims(DemoteDim(st, Head(dims)), Tail(dims))

\* for var in ds.data_vars: the data variables of the dataset the loop
\* started on.
RECURSIVE MoveVars(_, _, _)
MoveVars(st, vars, data_vars_whitelist) ==
  IF vars = <<>> THEN st
  ELSE MoveVars(DemoteVar(st, Head(vars), data_vars_whitelist), Tail(vars),
                data_vars_whitelist)

\* lines 188-191
SecondLoop(st, data_vars_whitelist) ==
  IF st.exc # "none" THEN st
  ELSE MoveVars(st, DataVars(st.cur), data_vars_whitelist)

\* line 192, and the two list objects as the call leaves them
ReturnCleaned(st, saved_vars_list, kept_list) ==
  [exc |-> st.exc, ds |-> CallerObject(st), returned |-> st.exc = "none",
   ret |-> IF st.exc = "none" THEN st.cur ELSE CallerObject(st),
   saved_vars_list |-> saved_vars_list, kept_list |-> kept_list]

\* Variant: the whitelist is built by extending GXSM_KEPT_DATA_VARS in place.
CleanUpMetadataExtendingKept(ds, saved_vars_list, kept_list) ==
  ReturnCleaned(
    SecondLoop(MoveDims([cur |-> ds, obj |-> ds, same |-> TRUE, exc |-> "none"],
                        Dims(ds)),
               kept_list \o saved_vars_list),
    saved_vars_list, kept_list \o saved_vars_list)

\* line 179: data_vars_whitelist = GXSM_KEPT_DATA_VARS + saved_vars_list makes
\* a new list.  kept_list is the module's list object GXSM_KEPT_DATA_VARS.
CleanUpMetadata(ds, saved_vars_list, kept_list) ==
  ReturnCleaned(
    SecondLoop(MoveDims([cur |-> ds, obj |-> ds, same |-> TRUE, exc |-> "none"],
                        Dims(ds)),
               kept_list \o saved_vars_list),
    saved_vars_list, kept_list)

(***************************************************************************)
(* The collaborators preprocess() imports: filename.parse_gxsm_filename    *)
(* and channel_config.GxsmChannelConfig.                                   *)
(***************************************************************************)
\* The channel a gxsm file name carries.
ParseGxsmFilename(filename) ==
  [channel |-> IF filename = "scan-Topo.nc" THEN "Topo" ELSE "ADC0"]

ConfigName(channels_config_dict, channel) ==
  IF channel \in DOMAIN channels_config_dict
  THEN channels_config_dict[channel].name ELSE channel

\* The resolved channel configuration: raw units unless physical units are
\* asked for; then the user's table, then (when allowed) the file's metadata.
GxsmChannelConfig(channels_config_dict, ds, use_physical_units, allow_convert_from_metadata, gxsm_file_attribs) ==
  IF ~use_physical_units
  THEN [exc |-> "none",
        config |-> [name |-> ConfigName(channels_config_dict,
                                        gxsm_file_attribs.channel),
                    conversion_factor |-> 1, units |-> "raw"]]
  ELSE IF gxsm_file_attribs.channel \in DOMAIN channels_config_dict
  THEN [exc |-> "none",
        config |-> channels_config_dict[gxsm_file_attribs.channel]]
  ELSE IF allow_convert_from_metadata /\ gxsm_file_attribs.channel = "Topo"
  THEN [exc |-> "none",
        config |-> [name |-> "Topo", conversion_factor |-> 1, units |-> "AA"]]
  ELSE [exc |-> "KeyError", config |-> <<>>]

(***************************************************************************)
(* preprocess(ds, use_physical_units, allow_convert_from_metadata,         *)
(*            channels_config_dict).  trace lists the steps it started.    *)
(***************************************************************************)
\* The formal parameters of convert_floatfield, line 77.
ConvertFloatfieldParams == <<"ds", "channel_config">>

Traced(r, trace) ==
  [exc |-> r.exc, ds |-> r.ds, returned |-> r.returned, ret |-> r.ret,
   trace |-> trace]

\* The result of a call made on the dataset the caller got from an earlier
\* step: the caller's own object is obj.
OnObject(obj, r) ==
  [exc |-> r.exc, ds |-> obj, returned |-> r.returned, ret |-> r.ret]

\* lines 72-74
DemoteIfAllowed(conv, allow_convert_from_metadata, channel_config, kept_list, trace) ==
  IF conv.exc # "none" THEN Traced(conv, trace)
  ELSE IF ~allow_convert_from_metadata THEN Traced(conv, trace)
  ELSE Traced(OnObject(conv.ds,
                       CleanUpMetadata(conv.ret, <<channel_config.name>>, kept_list)),
              Append(trace, "demote"))

\* lines 69-71: the call convert_floatfield(ds, use_physical_units,
\* allow_convert_from_metadata, channels_config_dict).  A call whose number
\* of arguments differs from the parameters is a TypeError.
CallConvert(ds, actuals, allow_convert_from_metadata, channel_config, kept_list, trace) ==
  IF Len(actuals) # Len(ConvertFloatfieldParams)
  THEN Traced(Raised("TypeError", ds), trace)
  ELSE DemoteIfAllowed(ConvertFloatfield(actuals[1], actuals[2]),
                       allow_convert_from_metadata, channel_config, kept_list, trace)

\* lines 65-68
ResolveConfig(ds, use_physical_units, allow_convert_from_metadata, channels_config_dict, kept_list, resolved) ==
  IF resolved.exc # "none"
  THEN Traced(Raised(resolved.exc, ds),
              <<"validate", "parse_filename", "resolve_config">>)
  ELSE CallConvert(ds, <<ds, use_physical_units, allow_convert_from_metadata,
                         channels_config_dict>>,
                   allow_convert_from_metadata, resolved.config, kept_list,
                   <<"validate", "parse_filename", "resolve_config", "convert">>)

\* lines 63-64
ParseFilename(ds, use_physical_units, allow_convert_from_metadata, channels_config_dict, kept_list) ==
  IF "source" \notin DOMAIN ds.encoding
  THEN Traced(Raised("KeyError", ds), <<"validate", "parse_filename">>)
  ELSE ResolveConfig(ds, use_physical_units, allow_convert_from_metadata,
                     channels_config_dict, kept_list,
                     GxsmChannelConfig(channels_config_dict, ds, use_physical_units,
                                       allow_convert_from_metadata,
                                       ParseGxsmFilename(ds.encoding["source"])))

\* Variant: the format check is made after the file name was looked up.
ValidateAfterParsing(ds, use_physical_units, allow_convert_from_metadata, channels_config_dict, kept_list, valid) ==
  IF "source" \notin DOMAIN ds.encoding
  THEN Traced(Raised("KeyError", ds), <<"parse_filename">>)
  ELSE IF valid.exc # "none"
  THEN Traced(Raised(valid.exc, ds), <<"parse_filename", "validate">>)
  ELSE IF ~valid.ret
  THEN Traced(Raised("TypeError", ds), <<"parse_filename", "validate">>)
  ELSE ParseFilename(ds, use_physical_units, allow_convert_from_metadata,
                     channels_config_dict, kept_list)

\* lines 58-59
Validate(ds, use_physical_units, allow_convert_from_metadata, channels_config_dict, kept_list, valid) ==
  IF valid.exc # "none" THEN Traced(Raised(valid.exc, ds), <<"validate">>)
  ELSE IF ~valid.ret THEN Traced(Raised("TypeError", ds), <<"validate">>)
  ELSE ParseFilename(ds, use_physical_units, allow_convert_from_metadata,
                     channels_config_dict, kept_list)

Preprocess(ds, use_physical_units, allow_convert_from_metadata, channels_config_dict, kept_list) ==
  Validate(ds, use_physical_units, allow_convert_from_metadata,
           channels_config_dict, kept_list, IsGxsmFile(ds))

(***************************************************************************)
(* The datasets the calls are tried on.  A gxsm file has the dimension     *)
(* coordinates dimx and dimy, metadata dimensions such as time and value   *)
(* (of length 1), the data variable FloatField with the scalar dz, and     *)
(* metadata variables; a file already converted holds the channel's        *)
(* variable instead of FloatField and dz.                                  *)
(***************************************************************************)
CoordVar(name, n) ==
  [name |-> name, dims |-> <<name>>, shape |-> <<n>>,
   data |-> [t \in Idx(<<n>>) |-> 10 * t[1]], units |-> "AA"]

ScalarVar(name, value) ==
  [name |-> name, dims |-> <<>>, shape |-> <<>>,
   data |-> [t \in {<<>>} |-> value], units |-> "AA"]

ShapeOf(dims, nx, ny) ==
  [k \in DOMAIN dims |->
     IF dims[k] = "dimx" THEN nx ELSE IF dims[k] = "dimy" THEN ny ELSE 1]

GridVar(name, dims, nx, ny) ==
  LET shape == ShapeOf(dims, nx, ny)
  IN [name |-> name, dims |-> dims, shape |-> shape,
      data |-> [t \in Idx(shape) |-> 10 * t[Len(t) - 1] + t[Len(t)]],
      units |-> "DAC"]

Layouts ==
  {<<"dimx", "dimy">>, <<"dimy", "dimx">>, <<"time", "dimy", "dimx">>,
   <<"time", "value", "dimy", "dimx">>}

Structures ==
  [nx : 1..MaxDim, ny : 1..MaxDim, layout : Layouts, timeCoord : BOOLEAN,
   valueCoord : BOOLEAN, rangex : {"none", "scalar", "time"},
   stage : {"raw", "converted"}, rev : BOOLEAN, dz : 1..MaxDz]

PlainStructures ==
  {p \in Structures :
     /\ p.layout = <<"dimx", "dimy">> /\ p.timeCoord /\ ~p.valueCoord
     /\ p.rangex = "scalar" /\ p.stage = "raw" /\ ~p.rev}

VariablesOf(p) ==
  LET vs == <<CoordVar("dimx", p.nx), CoordVar("dimy", p.ny)>>
            \o (IF p.timeCoord THEN <<CoordVar("time", 1)>> ELSE <<>>)
            \o (IF p.valueCoord THEN <<CoordVar("value", 1)>> ELSE <<>>)
            \o (IF p.stage = "raw"
                THEN <<GridVar(GXSM_DATA_VAR, p.layout, p.nx, p.ny),
                       ScalarVar(GXSM_DATA_DIFFERENTIAL, p.dz)>>
                ELSE <<GridVar("Topo", <<"dimx", "dimy">>, p.nx, p.ny)>>)
            \o (IF p.rangex = "scalar" THEN <<ScalarVar("rangex", 7)>>
                ELSE IF p.rangex = "time"
                THEN <<[name |-> "rangex", dims |-> <<"time">>, shape |-> <<1>>,
                        data |-> [t \in Idx(<<1>>) |-> 7], units |-> "AA"]>>
                ELSE <<>>)
  IN IF p.rev THEN Reverse(vs) ELSE vs

NoAttrs == [k \in {} |-> StrAttr(<<>>)]
NoEncoding == [k \in {} |-> ""]

MkDataset(p, attrs, encoding) ==
  [variables |-> VariablesOf(p), attrs |-> attrs, encoding |-> encoding]

\* The values of the 'Creator' attribute: every str over CreatorChars up to
\* MaxCreatorLen characters.
CreatorChars == {"g", "G", "x", "s", "m"}

CreatorStrings == UNION {[1..n -> CreatorChars] : n \in 0..MaxCreatorLen}

GxsmAttrs == [k \in {"Creator"} |-> StrAttr(<<"g", "x", "s", "m">>)]

SomeAttrs ==
  {NoAttrs, GxsmAttrs,
   [k \in {"Creator"} |-> StrAttr(<<"G", "X", "S", "M", "3">>)],
   [k \in {"Creator"} |-> StrAttr(<<"x", "s", "m">>)],
   [k \in {"Creator"} |-> NumAttr(3)],
   [k \in {"title"} |-> StrAttr(<<"g", "x", "s", "m">>)]}

SomeEncodings ==
  {NoEncoding, [k \in {"source"} |-> "scan-Topo.nc"],
   [k \in {"source"} |-> "scan-ADC0.nc"]}

ChannelConfigs ==
  [name : {"Topo", "rangex"}, conversion_factor : 1..MaxFactor,
   units : {"nm", "raw"}]

ChannelsConfigDicts ==
  {[k \in {} |-> <<>>],
   [k \in {"Topo"} |-> [name |-> "Topo", conversion_factor |-> 2, units |-> "nm"]],
   [k \in {"ADC0"} |-> [name |-> "Current", conversion_factor |-> 2, units |-> "nA"]]}

SavedVarsLists == {<<>>, <<"Topo">>, <<"rangex">>}

NoConfig == [name |-> "", conversion_factor |-> 1, units |-> ""]

(***************************************************************************)
(* State.  One of the four functions is called on the dataset ds0; ds is   *)
(* the caller's dataset object as the call leaves it.                      *)
(***************************************************************************)
VARIABLES
  call,               \* the function under call
  pc,                 \* "ready", "done", "done2"
  ds0,                \* the dataset as it was passed
  ds,                 \* the caller's dataset object
  args,               \* the other arguments of the call
  exc,                \* the exception raised, "none" when the call returned
  returned,           \* whether the call returned
  ret,                \* the dataset returned
  retb,               \* the bool returned by is_gxsm_file
  trace,              \* the steps preprocess started
  kept_data_vars,     \* the list object GXSM_KEPT_DATA_VARS
  default_saved_vars, \* the list object of the default saved_vars_list=[]
  arg_list,           \* the caller's list object passed as saved_vars_list
  first_ret           \* what the first clean_up_metadata call returned

vars == <<call, pc, ds0, ds, args, exc, returned, ret, retb, trace,
          kept_data_vars, default_saved_vars, arg_list, first_ret>>

NoArgs ==
  [use_physical_units |-> FALSE, allow_convert_from_metadata |-> FALSE,
   channels_config_dict |-> [k \in {} |-> <<>>], channel_config |-> NoConfig,
   use_default |-> FALSE, saved_vars_list |-> <<>>]

InputsOf(c) ==
  IF c = "is_gxsm_file"
  THEN {MkDataset(p, a, NoEncoding) :
          p \in {q \in PlainStructures : q.nx = 1 /\ q.ny = 1 /\ q.dz = 1},
          a \in {[k \in {"Creator"} |-> StrAttr(cs)] : cs \in CreatorStrings}
                \cup SomeAttrs}
  ELSE IF c = "preprocess"
  THEN {MkDataset(p[1], p[2], p[3]) :
          p \in PlainStructures \X SomeAttrs \X SomeEncodings}
  ELSE {MkDataset(p, GxsmAttrs, NoEncoding) : p \in Structures}

Init ==
  /\ call \in {"is_gxsm_file", "preprocess", "convert_floatfield",
               "clean_up_metadata"}
  /\ ds0 \in InputsOf(call)
  /\ ds = ds0
  /\ pc = "ready"
  /\ args = NoArgs
  /\ exc = "none"
  /\ returned = FALSE
  /\ ret = ds0
  /\ retb = FALSE
  /\ trace = <<>>
  /\ kept_data_vars = GXSM_KEPT_DATA_VARS
  /\ default_saved_vars = <<>>
  /\ arg_list = <<>>
  /\ first_ret = ds0

CallIsGxsmFile ==
  /\ pc = "ready" /\ call = "is_gxsm_file"
  /\ LET out == IsGxsmFile(ds)
     IN /\ exc' = out.exc
        /\ returned' = (out.exc = "none")
        /\ retb' = out.ret
  /\ pc' = "done"
  /\ UNCHANGED <<call, ds0, ds, args, ret, trace, kept_data_vars,
                 default_saved_vars, arg_list, first_ret>>

CallPreprocess ==
  /\ pc = "ready" /\ call = "preprocess"
  /\ \E upu \in BOOLEAN, acm \in BOOLEAN, ccd \in ChannelsConfigDicts :
       LET out == Preprocess(ds, upu, acm, ccd, kept_data_vars)
       IN /\ args' = [NoArgs EXCEPT !.use_physical_units = upu,
                                    !.allow_convert_from_metadata = acm,
                                    !.channels_config_dict = ccd]
          /\ exc' = out.exc
          /\ returned' = out.returned
          /\ ds' = out.ds
          /\ ret' = out.ret
          /\ trace' = out.trace
  /\ pc' = "done"
  /\ UNCHANGED <<call, ds0, retb, kept_data_vars, default_saved_vars, arg_list,
                 first_ret>>

CallConvertFloatfield ==
  /\ pc = "ready" /\ call = "convert_floatfield"
  /\ \E cc \in ChannelConfigs :
       LET out == ConvertFloatfield(ds, cc)
       IN /\ args' = [NoArgs EXCEPT !.channel_config = cc]
          /\ exc' = out.exc
          /\ returned' = out.returned
          /\ ds' = out.ds
          /\ ret' = out.ret
  /\ pc' = "done"
  /\ UNCHANGED <<call, ds0, retb, trace, kept_data_vars, default_saved_vars,
                 arg_list, first_ret>>

\* clean_up_metadata(ds, L), or clean_up_metadata(ds) with the default list.
CallCleanUpMetadata ==
  /\ pc = "ready" /\ call = "clean_up_metadata"
  /\ \E dflt \in BOOLEAN, L \in SavedVarsLists :
       LET passed == IF dflt THEN default_saved_vars ELSE L
           out == CleanUpMetadata(ds, passed, kept_data_vars)
       IN /\ (dflt => L = <<>>)
          /\ args' = [NoArgs EXCEPT !.use_default = dflt,
                                    !.saved_vars_list = passed]
          /\ arg_list' = IF dflt THEN arg_list ELSE out.saved_vars_list
          /\ default_saved_vars' =
               IF dflt THEN out.saved_vars_list ELSE default_saved_vars
          /\ kept_data_vars' = out.kept_list
          /\ exc' = out.exc
          /\ returned' = out.returned
          /\ ds' = out.ds
          /\ ret' = out.ret
          /\ first_ret' = out.ret
  /\ pc' = "done"
  /\ UNCHANGED <<call, ds0, retb, trace>>

\* The same call once more, on the dataset the first call returned.
CallCleanUpMetadataAgain ==
  /\ pc = "done" /\ call = "clean_up_metadata" /\ returned
  /\ LET passed == IF args.use_default THEN default_saved_vars ELSE arg_list
         out == CleanUpMetadata(ret, passed, kept_data_vars)
     IN /\ arg_list' = IF args.use_default THEN arg_list ELSE out.saved_vars_list
        /\ default_saved_vars' =
             IF args.use_default THEN out.saved_vars_list ELSE default_saved_vars
        /\ kept_data_vars' = out.kept_list
        /\ exc' = out.exc
        /\ returned' = out.returned
        /\ ret' = out.ret
  /\ pc' = "done2"
  /\ UNCHANGED <<call, ds0, ds, args, retb, trace, first_ret>>

Next ==
  \/ CallIsGxsmFile
  \/ CallPreprocess
  \/ CallConvertFloatfield
  \/ CallCleanUpMetadata
  \/ CallCleanUpMetadataAgain

Spec == Init /\ [][Next]_vars

(***************************************************************************)
(* The claims.                                                             *)
(***************************************************************************)
Done(c) == call = c /\ pc = "done"

PassesFormatCheck(d) == IsGxsmFile(d) = [exc |-> "none", ret |-> TRUE]
FailsFormatCheck(d) == IsGxsmFile(d) = [exc |-> "none", ret |-> FALSE]

\* preprocess gets as far as the conversion: the file is a gxsm file, its
\* name is known and raw units need no configuration.
ReachesConversion ==
  /\ Done("preprocess")
  /\ PassesFormatCheck(ds0)
  /\ "source" \in DOMAIN ds0.encoding
  /\ ~args.use_physical_units

PipelineOf(allow) ==
  <<"validate", "parse_filename", "resolve_config", "convert">>
  \o (IF allow THEN <<"demote">> ELSE <<>>)

\* C1: on a dataset that passes the format check, preprocess runs validate,
\* resolve config, convert and (when enabled) demote, in this order, and
\* returns the resulting dataset.
C1_PipelineRunsAndReturns ==
  ReachesConversion =>
    /\ returned
    /\ exc = "none"
    /\ trace = PipelineOf(args.allow_convert_from_metadata)

\* C2: on a dataset that fails the format check, preprocess raises TypeError
\* before the file name is parsed, the configuration resolved or anything
\* converted or demoted, and the dataset is left as it was.
C2_InvalidFileRejected ==
  (Done("preprocess") /\ FailsFormatCheck(ds0)) =>
    /\ exc = "TypeError"
    /\ ~returned
    /\ trace = <<"validate">>
    /\ ds = ds0

C2_Witness ==
  /\ Done("preprocess")
  /\ FailsFormatCheck(ds0)
  /\ "Creator" \in DOMAIN ds0.attrs
  /\ "source" \in DOMAIN ds0.encoding
  /\ exc = "TypeError"

\* A gxsm dataset convert_floatfield can convert: FloatField over
\* (dimx, dimy) and the scalar dz.
Convertible(d) ==
  /\ HasVariable(d, GXSM_DATA_VAR)
  /\ HasVariable(d, GXSM_DATA_DIFFERENTIAL)
  /\ Variable(d, GXSM_DATA_VAR).dims = <<"dimx", "dimy">>

\* C3: the dataset convert_floatfield returns has the variable named by
\* channel_config.name, has neither FloatField nor dz, and still has the
\* dimensions dimx and dimy.
C3_OriginalsReplaced ==
  (Done("convert_floatfield") /\ Convertible(ds0)) =>
    /\ returned
    /\ HasVariable(ret, args.channel_config.name)
    /\ ~HasVariable(ret, GXSM_DATA_VAR)
    /\ ~HasVariable(ret, GXSM_DATA_DIFFERENTIAL)
    /\ {"dimx", "dimy"} \subseteq SeqToSet(Dims(ret))

\* convert_floatfield wrote a field into the dataset (line 132).
FieldStored == Done("convert_floatfield") /\ ds # ds0

\* C4: the field convert_floatfield stores under channel_config.name is, at
\* every pixel, FloatField * dz * conversion_factor; it is over (dimx, dimy)
\* with the input's dimx and dimy coordinates, and its units are
\* channel_config.units.
C4_FieldIsScaledProduct ==
  FieldStored =>
    LET field == Variable(ds, args.channel_config.name)
        ff == Variable(ds0, GXSM_DATA_VAR)
        dz == Variable(ds0, GXSM_DATA_DIFFERENTIAL)
    IN /\ HasVariable(ds, args.channel_config.name)
       /\ field.dims = <<"dimx", "dimy">>
       /\ field.shape = <<DimSize(ds0, "dimx"), DimSize(ds0, "dimy")>>
       /\ DOMAIN field.data = Idx(field.shape)
       /\ \A t \in Idx(field.shape) :
            field.data[t] = ff.data[t] * dz.data[<<>>]
                            * args.channel_config.conversion_factor
       /\ Variable(ds, "dimx") = Variable(ds0, "dimx")
       /\ Variable(ds, "dimy") = Variable(ds0, "dimy")
       /\ field.units = args.channel_config.units

C4_Witness ==
  /\ FieldStored
  /\ args.channel_config.conversion_factor = 2
  /\ Variable(ds0, GXSM_DATA_DIFFERENTIAL).data[<<>>] = 2
  /\ Variable(ds, args.channel_config.name).shape = <<2, 2>>
  /\ Variable(ds, args.channel_config.name).data[<<2, 1>>] = 84
  /\ Variable(ds, args.channel_config.name).data[<<1, 2>>] = 48

Cleaned == call = "clean_up_metadata" /\ pc = "done" /\ returned

\* the list the call was given as saved_vars_list
PassedList == args.saved_vars_list

Whitelist == SeqToSet(GXSM_KEPT_DATA_VARS) \cup SeqToSet(PassedList)

\* C5: every dimension and every data variable of the input that is absent
\* from the dataset clean_up_metadata returns has an entry under its name in
\* the returned attrs.
C5_NothingLost ==
  Cleaned =>
    /\ \A d \in SeqToSet(Dims(ds0)) \ SeqToSet(Dims(ret)) : d \in DOMAIN ret.attrs
    /\ \A v \in SeqToSet(DataVars(ds0)) \ SeqToSet(DataVars(ret)) :
         v \in DOMAIN ret.attrs

\* C6: every dimension of the dataset clean_up_metadata returns is dimx or
\* dimy, and every data variable of it is FloatField, dz or in
\* saved_vars_list.
C6_OnlyKeptRemain ==
  Cleaned =>
    /\ SeqToSet(Dims(ret)) \subseteq SeqToSet(GXSM_KEPT_DIMS)
    /\ SeqToSet(DataVars(ret)) \subseteq Whitelist

C6_Witness ==
  /\ Cleaned
  /\ "time" \in SeqToSet(Dims(ds0))
  /\ "rangex" \in SeqToSet(DataVars(ds0))
  /\ PassedList = <<"Topo">>
  /\ SeqToSet(DataVars(ret)) = {"Topo"}
  /\ SeqToSet(Dims(ret)) = {"dimx", "dimy"}
  /\ {"time", "rangex"} \subseteq DOMAIN ret.attrs

\* C7: every data variable of the input named FloatField, dz or listed in
\* saved_vars_list is a data variable of the returned dataset with the same
\* data, and is no attribute, whatever its dimensions.
C7_KeptVariablesKept ==
  Cleaned =>
    \A v \in SeqToSet(DataVars(ds0)) \cap Whitelist :
      /\ v \in SeqToSet(DataVars(ret))
      /\ Variable(ret, v) = Variable(ds0, v)
      /\ v \notin DOMAIN ret.attrs

\* 'gxsm' occurs in chars, in any mix of upper and lower case.
OccursAnyCase(chars) ==
  \E i \in 1..(Len(chars) - 3) :
    /\ chars[i] \in {"g", "G"}
    /\ chars[i + 1] \in {"x", "X"}
    /\ chars[i + 2] \in {"s", "S"}
    /\ chars[i + 3] \in {"m", "M"}

IsStr(d, key) == key \in DOMAIN d.attrs /\ d.attrs[key].kind = "str"

\* C8: is_gxsm_file returns True exactly when attrs has a 'Creator' whose
\* value contains 'gxsm' in any case, False when it does not contain it, and
\* False, raising nothing, when there is no 'Creator'.
C8_FormatCheck ==
  (Done("is_gxsm_file") /\ ("Creator" \in DOMAIN ds0.attrs => IsStr(ds0, "Creator"))) =>
    /\ exc = "none"
    /\ returned
    /\ retb = ("Creator" \in DOMAIN ds0.attrs
               /\ OccursAnyCase(ds0.attrs["Creator"].val))

C8_Witness ==
  /\ Done("is_gxsm_file")
  /\ IsStr(ds0, "Creator")
  /\ ds0.attrs["Creator"].val = <<"s", "G", "x", "s", "m">>
  /\ retb

\* C9: preprocess calls clean_up_metadata exactly when
\* allow_convert_from_metadata is true, after the conversion; when it is
\* false the returned dataset is the converted one, with every metadata
\* variable and dimension still there and no attribute added.
C9_DemotionIsOptional ==
  ReachesConversion =>
    /\ returned
    /\ ("demote" \in SeqToSet(trace)) = args.allow_convert_from_metadata
    /\ (~args.allow_convert_from_metadata =>
          /\ ret.attrs = ds0.attrs
          /\ SeqToSet(Dims(ds0)) \subseteq SeqToSet(Dims(ret))
          /\ SeqToSet(DataVars(ds0)) \ SeqToSet(GXSM_KEPT_DATA_VARS)
               \subseteq SeqToSet(DataVars(ret)))

\* C10: clean_up_metadata applied to its own result with the same list
\* changes nothing (same dimensions, data variables and attrs), and no call
\* modifies the list it is passed, the default list or GXSM_KEPT_DATA_VARS.
C10_IdempotentAndListsUntouched ==
  (call = "clean_up_metadata" /\ pc # "ready") =>
    /\ kept_data_vars = GXSM_KEPT_DATA_VARS
    /\ default_saved_vars = <<>>
    /\ (~args.use_default => arg_list = args.saved_vars_list)
    /\ (pc = "done2" =>
          /\ returned
          /\ Dims(ret) = Dims(first_ret)
          /\ DataVars(ret) = DataVars(first_ret)
          /\ ret.variables = first_ret.variables
          /\ ret.attrs = first_ret.attrs)

C10_Witness ==
  /\ call = "clean_up_metadata" /\ pc = "done2"
  /\ args.saved_vars_list = <<"rangex">>
  /\ DOMAIN first_ret.attrs = {"Creator", "time"}
  /\ SeqToSet(DataVars(ret)) = {GXSM_DATA_VAR, GXSM_DATA_DIFFERENTIAL, "rangex"}

====
